---- MODULE Spec2Model ----
(***************************************************************************)
(* Model of discordApp.js: the per-guild update timers, the reconciliation *)
(* loop updateGuildMappings and the slash-command handlers that change the *)
(* guild settings.                                                         *)
(*                                                                         *)
(* One action is one run of a handler between two suspension points        *)
(* (await): Node runs such a stretch to completion before any other        *)
(* callback.  The variable emitted holds what the last stretch did (timer  *)
(* calls, requests issued, log lines), in the order it did it.             *)
(***************************************************************************)
EXTENDS Integers, Sequences, FiniteSets, TLC

VARIABLES
    readyPc,        \* position of the once('ready') handler
    guildsCache,    \* bot.guilds.cache: the guilds the bot is a member of
    config,         \* config.guilds: guildId -> settings record
    coinListCache,  \* coinListCache.list, as the set of the ids of its coins
    timers,         \* the Map timers: guildId -> timer handle
    intervals,      \* armed setInterval timers: handle -> its guild and period
    ticks,          \* updateGuildMappings calls suspended in an await
    cmds,           \* interactionCreate handlers suspended in an await
    emitted         \* what the last handler stretch did

vars == <<readyPc, guildsCache, config, coinListCache, timers, intervals,
          ticks, cmds, emitted>>

(***************************************************************************)
(* Bounds and input alphabets                                              *)
(***************************************************************************)
Guilds == {"g1", "g2"}
Channels == {"c1", "c2"}

\* What a run's environment may send: the guilds that take part, the channels
\* users name, the coin/label options of /crypto-add and the minutes options
\* of /crypto-interval.
Env(gs, chs, opts, mins) ==
    [guilds |-> gs, channels |-> chs, addOptions |-> opts, minutes |-> mins]

\* Handlers suspended in an await (reconciliation calls and command handlers
\* together) that the model keeps at one time.
MaxInFlight == 2

TickSlots == 1..MaxInFlight
CmdSlots == 1..MaxInFlight

\* The ids the price service knows (GET /coins/list).
Catalog == {"bitcoin", "ethereum"}

\* What a user may give as the channel, coin and label options of /crypto-add.
AddOptions ==
    { [channel |-> "c1", coin |-> "bitcoin",    label |-> "BTC"],
      [channel |-> "c1", coin |-> " Ethereum ", label |-> " ETH "],
      [channel |-> "c1", coin |-> "notacoin",   label |-> "NAC"],
      [channel |-> "c2", coin |-> "bitcoin",    label |-> "BTC"] }

\* What a user may type as the minutes option of /crypto-interval.
MinutesOptions == {0, 1, 1440, 1441}

Idle == [pc |-> "idle"]

(***************************************************************************)
(* String conversions, by table over the strings of the model              *)
(***************************************************************************)
\* String.prototype.toLowerCase
toLowerCase(s) ==
    CASE s = " Ethereum " -> " ethereum "
      [] s = "Ethereum"   -> "ethereum"
      [] OTHER            -> s

\* String.prototype.trim
trim(s) ==
    CASE s = " Ethereum " -> "Ethereum"
      [] s = " ethereum " -> "ethereum"
      [] s = " ETH "      -> "ETH"
      [] OTHER            -> s

(***************************************************************************)
(* Helpers on maps and sequences                                           *)
(***************************************************************************)
MapDelete(f, k) == [x \in DOMAIN f \ {k} |-> f[x]]

MapSet(f, k, v) == [x \in DOMAIN f \cup {k} |-> IF x = k THEN v ELSE f[x]]

Max(a, b) == IF a >= b THEN a ELSE b

Range(f) == { f[x] : x \in DOMAIN f }

\* The places of the events of one kind about guild g in the sequence out.
EventsOf(out, kind, g) ==
    { i \in DOMAIN out : out[i].ev = kind /\ out[i].guildId = g }

(***************************************************************************)
(* Synchronous code.  These operators take and return a record st of the   *)
(* variables a synchronous stretch reads and writes (guildsCache, config,  *)
(* timers, intervals, ticks, cmds, emitted) plus overflow, which is set     *)
(* when a stretch would suspend more handlers than MaxInFlight.            *)
(***************************************************************************)
DefaultCfg == [intervalMinutes |-> 10, running |-> TRUE, entries |-> <<>>]

\* function getGuildCfg: read-or-create of config.guilds[guildId]
getGuildCfg(st, g) ==
    IF g \in DOMAIN st.config
    THEN st
    ELSE [st EXCEPT !.config = MapSet(@, g, DefaultCfg)]

Emit(st, e) == [st EXCEPT !.emitted = Append(@, e)]

\* stopGuildTimer without its clearInterval(t): the handle leaves the map and
\* the interval stays armed
stopGuildTimerKeepsInterval(st, g) ==
    IF g \in DOMAIN st.timers
    THEN Emit([st EXCEPT !.timers = MapDelete(@, g)],
              [ev |-> "clear", guildId |-> g, handle |-> st.timers[g],
               periodMs |-> st.intervals[st.timers[g]].periodMs])
    ELSE st

\* stopGuildTimer that empties the whole map: every guild's interval is
\* cleared and every handle deleted
stopGuildTimerStopsAll(st, g) ==
    IF g \in DOMAIN st.timers
    THEN LET h == st.timers[g] IN
         Emit([st EXCEPT !.intervals = << >>, !.timers = << >>],
              [ev |-> "clear", guildId |-> g, handle |-> h,
               periodMs |-> st.intervals[h].periodMs])
    ELSE st

\* function stopGuildTimer: clearInterval and timers.delete, if a handle is there
stopGuildTimer(st, g) ==
    IF g \in DOMAIN st.timers
    THEN LET h == st.timers[g] IN
         Emit([st EXCEPT !.intervals = MapDelete(@, h),
                         !.timers = MapDelete(@, g)],
              [ev |-> "clear", guildId |-> g, handle |-> h,
               periodMs |-> st.intervals[h].periodMs])
    ELSE st

\* idSet without the Set: one id per entry
idSetNoDedupe(entries) ==
    [i \in DOMAIN entries |-> toLowerCase(entries[i].coin)]

\* [...new Set(entries.map(e => e.coin.toLowerCase()))]: the lower-cased coins,
\* each once, in the order of their first entry
idSet(entries) ==
    LET F[i \in 0..Len(entries)] ==
            IF i = 0
            THEN << >>
            ELSE LET id == toLowerCase(entries[i].coin) IN
                 IF id \in Range(F[i - 1]) THEN F[i - 1] ELSE Append(F[i - 1], id)
    IN  F[Len(entries)]

FreeTickSlots(st) == { s \in TickSlots : st.ticks[s] = Idle }

\* The number of handlers suspended in an await.
Busy(st) ==
    Cardinality({ s \in TickSlots : st.ticks[s] # Idle })
        + Cardinality({ s \in CmdSlots : st.cmds[s] # Idle })

\* The tick record of a call that awaits its bulk price fetch.
FetchingTick(g, ids) ==
    [pc |-> "fetch", guildId |-> g, ids |-> ids, prices |-> {},
     idx |-> 0, live |-> TRUE, snap |-> <<>>]

\* updateGuildMappings behind a per-guild guard: it returns at once while an
\* earlier call for the guild is suspended
updateGuildMappingsNonReentrant(st, g) ==
    LET s0 == Emit(st, [ev |-> "invoke", guildId |-> g]) IN
    IF g \notin s0.guildsCache
           \/ \E s \in TickSlots : s0.ticks[s] # Idle /\ s0.ticks[s].guildId = g
    THEN s0
    ELSE LET s1 == getGuildCfg(s0, g)
             entries == s1.config[g].entries
         IN  IF Len(entries) = 0
             THEN s1
             ELSE LET ids == idSet(entries)
                      s2 == Emit(s1, [ev |-> "fetch", guildId |-> g, ids |-> ids])
                  IN  IF Busy(s2) >= MaxInFlight
                      THEN [s2 EXCEPT !.overflow = TRUE]
                      ELSE LET slot == CHOOSE s \in FreeTickSlots(s2) :
                                          \A r \in FreeTickSlots(s2) : s <= r
                           IN  [s2 EXCEPT !.ticks[slot] = FetchingTick(g, Range(ids))]

\* function updateGuildMappings up to its first await (the bulk fetch)
updateGuildMappings(st, g) ==
    LET s0 == Emit(st, [ev |-> "invoke", guildId |-> g]) IN
    IF g \notin s0.guildsCache
    THEN s0
    ELSE LET s1 == getGuildCfg(s0, g)
             entries == s1.config[g].entries
         IN  IF Len(entries) = 0
             THEN s1
             ELSE LET ids == idSet(entries)
                      s2 == Emit(s1, [ev |-> "fetch", guildId |-> g, ids |-> ids])
                  IN  IF Busy(s2) >= MaxInFlight
                      THEN [s2 EXCEPT !.overflow = TRUE]
                      ELSE LET slot == CHOOSE s \in FreeTickSlots(s2) :
                                          \A r \in FreeTickSlots(s2) : s <= r
                           IN  [s2 EXCEPT !.ticks[slot] = FetchingTick(g, Range(ids))]

\* const tick: updateGuildMappings under try/catch
tick(st, g) == updateGuildMappings(st, g)

\* periodMs without the factor 60: the minutes taken as seconds
periodMsInSeconds(intervalMinutes) ==
    Max(1, IF intervalMinutes = 0 THEN 10 ELSE intervalMinutes) * 1000

\* Math.max(1, Number(gcfg.intervalMinutes || 10)) * 60 * 1000
periodMs(intervalMinutes) ==
    Max(1, IF intervalMinutes = 0 THEN 10 ELSE intervalMinutes) * 60 * 1000

\* A handle setInterval has not handed out among the armed ones.
FreshHandle(st) ==
    CHOOSE h \in 1..(Cardinality(DOMAIN st.intervals) + 1) :
        /\ h \notin DOMAIN st.intervals
        /\ \A k \in 1..(h - 1) : k \in DOMAIN st.intervals

\* startGuildTimer without its first line stopGuildTimer(guildId): the new
\* handle overwrites the old one in the map
startGuildTimerNoStop(st, g) ==
    LET s1 == getGuildCfg(st, g)
        gcfg == s1.config[g]
    IN  IF ~gcfg.running
        THEN s1
        ELSE LET s2 == tick(s1, g)
                 h == FreshHandle(s2)
                 p == periodMs(gcfg.intervalMinutes)
             IN  Emit([s2 EXCEPT
                          !.intervals = MapSet(@, h, [guildId |-> g, periodMs |-> p]),
                          !.timers = MapSet(@, g, h)],
                      [ev |-> "arm", guildId |-> g, handle |-> h, periodMs |-> p])

\* function startGuildTimer
startGuildTimer(st, g) ==
    LET s1 == getGuildCfg(stopGuildTimer(st, g), g)
        gcfg == s1.config[g]
    IN  IF ~gcfg.running
        THEN s1
        ELSE LET s2 == tick(s1, g)
                 h == FreshHandle(s2)
                 p == periodMs(gcfg.intervalMinutes)
             IN  Emit([s2 EXCEPT
                          !.intervals = MapSet(@, h, [guildId |-> g, periodMs |-> p]),
                          !.timers = MapSet(@, g, h)],
                      [ev |-> "arm", guildId |-> g, handle |-> h, periodMs |-> p])

(***************************************************************************)
(* The entry loop of updateGuildMappings (for ... of gcfg.entries), run    *)
(* from index i until it awaits a rename or ends.  perm is what            *)
(* guild.members.me.permissions answers for ManageChannels and present is  *)
(* the set of channel ids guild.channels.cache resolves during the         *)
(* stretch.  An array iterator reads the array it was created on: the      *)
(* guild's current array while live, a detached copy after /crypto-remove  *)
(* has replaced gcfg.entries.                                              *)
(***************************************************************************)
IteratedArray(st, slot) ==
    IF st.ticks[slot].live
    THEN st.config[st.ticks[slot].guildId].entries
    ELSE st.ticks[slot].snap

\* What the loop did with entry e at index i: prices is the bulk result it
\* looked e.coin up in, found and perm are what channels.cache.get and
\* permissions.has answered ("unread" when the loop did not ask).
EntryEvent(t, i, e, found, perm, outcome) ==
    [ev |-> "entry", guildId |-> t.guildId, index |-> i,
     channelId |-> e.channelId, coin |-> e.coin, prices |-> t.prices,
     found |-> found, perm |-> perm, outcome |-> outcome]

TickDone(st, slot, len) ==
    Emit([st EXCEPT !.ticks[slot] = Idle],
         [ev |-> "tickDone", guildId |-> st.ticks[slot].guildId, len |-> len])

\* The loop body with setName not awaited: the loop goes on to the next entry
\* while the rename is outstanding
loopExitNoAwait(outcome) ==
    IF outcome = "noperm" THEN "break" ELSE "continue"

\* The loop body with every missing precondition leaving by continue
loopExitAlwaysContinue(outcome) ==
    IF outcome = "rename" THEN "await" ELSE "continue"

\* The loop body with every missing precondition leaving by break
loopExitAlwaysBreak(outcome) ==
    IF outcome = "rename" THEN "await" ELSE "break"

\* How the loop body leaves after each outcome: continue for a missing price
\* or channel, break for the missing permission, the awaited setName otherwise
loopExit(outcome) ==
    CASE outcome = "noprice" -> "continue"
      [] outcome = "nochannel" -> "continue"
      [] outcome = "noperm" -> "break"
      [] outcome = "rename" -> "await"

\* The checks of the loop body, in their order: typeof price, the channel
\* lookup, the permission
entryOutcome(hasPrice, found, perm) ==
    IF ~hasPrice THEN "noprice"
    ELSE IF ~found THEN "nochannel"
    ELSE IF ~perm THEN "noperm"
    ELSE "rename"

RECURSIVE RunEntries(_, _, _, _, _)
RunEntries(st, slot, i, perm, present) ==
    LET t == st.ticks[slot]
        arr == IteratedArray(st, slot)
    IN  IF i > Len(arr)
        THEN TickDone(st, slot, Len(arr))
        ELSE LET e == arr[i]
                 hasPrice == e.coin \in t.prices
                 found == e.channelId \in present
                 outcome == entryOutcome(hasPrice, found, perm)
                 foundRead == IF ~hasPrice THEN "unread"
                              ELSE IF found THEN "yes" ELSE "no"
                 permRead == IF ~hasPrice \/ ~found THEN "unread"
                             ELSE IF perm THEN "yes" ELSE "no"
                 s1 == Emit(st, EntryEvent(t, i, e, foundRead, permRead, outcome))
                 exit == loopExit(outcome)
             IN  IF exit = "continue"
                 THEN RunEntries(s1, slot, i + 1, perm, present)
                 ELSE IF exit = "break"
                 THEN TickDone(s1, slot, Len(arr))
                 ELSE [s1 EXCEPT !.ticks[slot].pc = "rename",
                                 !.ticks[slot].idx = i]

(***************************************************************************)
(* Initial state: the module has been loaded (config read from             *)
(* config.json, no timer armed, catalog cache empty) and the client has    *)
(* logged in.  A config.json left by an earlier run may hold records of    *)
(* guilds that were stopped or left.                                       *)
(***************************************************************************)
InitConfigs(gs) ==
    UNION { [sub -> { [DefaultCfg EXCEPT !.running = r] : r \in BOOLEAN }]
            : sub \in SUBSET gs }

InitOver(E) ==
    /\ readyPc = "start"
    /\ guildsCache \in SUBSET E.guilds
    /\ config \in InitConfigs(E.guilds)
    /\ coinListCache = [list |-> {}]
    /\ timers = << >>
    /\ intervals = << >>
    /\ ticks = [s \in TickSlots |-> Idle]
    /\ cmds = [s \in CmdSlots |-> Idle]
    /\ emitted = << >>

\* The variables of a synchronous stretch, as it starts.
Now ==
    [guildsCache |-> guildsCache, config |-> config, timers |-> timers,
     intervals |-> intervals, ticks |-> ticks, cmds |-> cmds,
     emitted |-> << >>, overflow |-> FALSE]

\* The stretch ended in st.
Commit(st) ==
    /\ ~st.overflow
    /\ guildsCache' = st.guildsCache
    /\ config' = st.config
    /\ timers' = st.timers
    /\ intervals' = st.intervals
    /\ ticks' = st.ticks
    /\ cmds' = st.cmds
    /\ emitted' = st.emitted

(***************************************************************************)
(* Client events                                                           *)
(***************************************************************************)
\* bot.once('ready') up to await registerCommands
ReadyBegin ==
    /\ readyPc = "start"
    /\ readyPc' = "registering"
    /\ Commit(Now)
    /\ UNCHANGED coinListCache

\* for (const [guildId] of bot.guilds.cache): start the timers of running guilds
RECURSIVE StartRunning(_, _)
StartRunning(st, gs) ==
    IF gs = {}
    THEN st
    ELSE LET g == CHOOSE x \in gs : TRUE
             s1 == getGuildCfg(st, g)
             s2 == IF s1.config[g].running THEN startGuildTimer(s1, g) ELSE s1
         IN  StartRunning(s2, gs \ {g})

\* bot.once('ready') after registerCommands has resolved or thrown
ReadyFinish ==
    /\ readyPc = "registering"
    /\ readyPc' = "done"
    /\ Commit(StartRunning(Now, guildsCache))
    /\ UNCHANGED coinListCache

\* guildCreate without its startGuildTimer(guild.id)
GuildCreateNoStart(g) ==
    /\ readyPc # "start"
    /\ g \notin guildsCache
    /\ Commit(getGuildCfg([Now EXCEPT !.guildsCache = @ \cup {g}], g))
    /\ UNCHANGED <<readyPc, coinListCache>>

\* guildCreate that writes the default record over a retained one
GuildCreateResetsRecord(g) ==
    /\ readyPc # "start"
    /\ g \notin guildsCache
    /\ Commit(startGuildTimer(
                  [Now EXCEPT !.guildsCache = @ \cup {g},
                              !.config = MapSet(@, g, DefaultCfg)], g))
    /\ UNCHANGED <<readyPc, coinListCache>>

\* bot.on('guildCreate')
GuildCreate(g) ==
    /\ readyPc # "start"
    /\ g \notin guildsCache
    /\ Commit(startGuildTimer(
                  getGuildCfg([Now EXCEPT !.guildsCache = @ \cup {g}], g), g))
    /\ UNCHANGED <<readyPc, coinListCache>>

\* bot.on('guildDelete')
GuildDelete(g) ==
    /\ readyPc # "start"
    /\ g \in guildsCache
    /\ Commit(stopGuildTimer([Now EXCEPT !.guildsCache = @ \ {g}], g))
    /\ UNCHANGED <<readyPc, coinListCache>>

(***************************************************************************)
(* Timer ticks and the reconciliation they run                             *)
(***************************************************************************)
\* An armed interval h fires: tick()
TimerFire(h) ==
    /\ h \in DOMAIN intervals
    /\ Commit(tick(Now, intervals[h].guildId))
    /\ UNCHANGED <<readyPc, coinListCache>>

\* await fetch(url) of the bulk request returns: ok with the prices of some
\* of the requested ids, or not ok / thrown, which leaves prices = {}
FetchReturn(slot, ok, result, perm, present) ==
    /\ ticks[slot].pc = "fetch"
    /\ result \subseteq ticks[slot].ids
    /\ ~ok => result = {}
    /\ LET g == ticks[slot].guildId
           s1 == Emit([Now EXCEPT !.ticks[slot].prices = result,
                                  !.ticks[slot].ids = {}],
                      [ev |-> "fetchResult", guildId |-> g, ok |-> ok,
                       prices |-> result])
       IN  Commit(RunEntries(s1, slot, 1, perm, present))
    /\ UNCHANGED <<readyPc, coinListCache>>

\* renameSettled with a catch that gives the guild up: it stops the guild's timer
renameSettledStopsTimer(st, slot, ok) ==
    LET s1 == Emit(st, [ev |-> "renameResult", guildId |-> st.ticks[slot].guildId,
                        index |-> st.ticks[slot].idx, ok |-> ok])
    IN  IF ok THEN s1 ELSE stopGuildTimer(s1, st.ticks[slot].guildId)

\* The rename of the entry at the tick's index has resolved (console.log) or
\* thrown into the catch of the loop body (console.error)
renameSettled(st, slot, ok) ==
    Emit(st, [ev |-> "renameResult", guildId |-> st.ticks[slot].guildId,
              index |-> st.ticks[slot].idx, ok |-> ok])

\* afterRename with a catch that rethrows: a failed rename ends the loop
afterRenameThrows(st, slot, ok, perm, present) ==
    IF ok
    THEN RunEntries(renameSettled(st, slot, ok), slot,
                    st.ticks[slot].idx + 1, perm, present)
    ELSE TickDone(renameSettled(st, slot, ok), slot, Len(IteratedArray(st, slot)))

\* The loop after the try/catch around setName: the next entry, either way
afterRename(st, slot, ok, perm, present) ==
    RunEntries(renameSettled(st, slot, ok), slot,
               st.ticks[slot].idx + 1, perm, present)

\* await channel.setName(safeName) returns or throws
RenameReturn(slot, ok, perm, present) ==
    /\ ticks[slot].pc = "rename"
    /\ Commit(afterRename(Now, slot, ok, perm, present))
    /\ UNCHANGED <<readyPc, coinListCache>>

(***************************************************************************)
(* Slash commands: bot.on('interactionCreate')                             *)
(*                                                                         *)
(* The handler reads commandName and the options only after its first      *)
(* await (guild.members.fetch), so they are drawn where it reads them.     *)
(***************************************************************************)
Cmd(pc, g, ch, coin, label) ==
    [pc |-> pc, guildId |-> g, channelId |-> ch, coin |-> coin, label |-> label]

\* interaction.reply / editReply.  The answers that tell what a command did
\* to the settings are recorded; "denied", "badchannel", "list", "added" and
\* "error" are not.
Reply(st, g, text) ==
    IF text \in {"denied", "badchannel", "list", "added", "error"}
    THEN st
    ELSE Emit(st, [ev |-> "reply", guildId |-> g, text |-> text])

\* The handler in slot returns.
EndCmd(st, slot) == [st EXCEPT !.cmds[slot] = Idle]

\* const gcfg = getGuildCfg(guild.id), once members.fetch has resolved and
\* the member has Manage Server
Authorized(slot) ==
    getGuildCfg(Now, cmds[slot].guildId)

\* A chat-input interaction of a guild arrives; the handler awaits members.fetch
InteractionCreate(g) ==
    /\ readyPc # "start"
    /\ g \in guildsCache
    /\ Busy(Now) < MaxInFlight
    /\ LET free == { s \in CmdSlots : cmds[s] = Idle }
           slot == CHOOSE s \in free : \A r \in free : s <= r
       IN  Commit([Now EXCEPT !.cmds[slot] = Cmd("auth", g, "", "", "")])
    /\ UNCHANGED <<readyPc, coinListCache>>

\* members.fetch threw, or the member lacks Manage Server
Denied(slot) ==
    /\ cmds[slot].pc = "auth"
    /\ Commit(Reply(EndCmd(Now, slot), cmds[slot].guildId, "denied"))
    /\ UNCHANGED <<readyPc, coinListCache>>

\* list.some(c => c.id.toLowerCase() === coinId.toLowerCase())
validateCoinId(list, coinId) ==
    \E c \in list : toLowerCase(c) = toLowerCase(coinId)

\* gcfg.entries.findIndex(e => e.channelId === channel.id), 0 for -1
findIndex(entries, ch) ==
    IF \E i \in DOMAIN entries : entries[i].channelId = ch
    THEN CHOOSE i \in DOMAIN entries :
             /\ entries[i].channelId = ch
             /\ \A j \in 1..(i - 1) : entries[j].channelId # ch
    ELSE 0

\* upsert as remove-then-push: the replaced mapping moves to the end
upsertMovesToEnd(entries, newEntry) ==
    Append(SelectSeq(entries, LAMBDA e : e.channelId # newEntry.channelId), newEntry)

\* upsert without the findIndex: always push
upsertAlwaysPush(entries, newEntry) ==
    Append(entries, newEntry)

\* The upsert of /crypto-add: replace at the existing index, or push
upsert(entries, newEntry) ==
    LET existingIdx == findIndex(entries, newEntry.channelId) IN
    IF existingIdx >= 1
    THEN [entries EXCEPT ![existingIdx] = newEntry]
    ELSE Append(entries, newEntry)

\* filter replaced by a cut at the first match: the later mappings go too
filterOutCutsTail(entries, ch) ==
    IF findIndex(entries, ch) = 0
    THEN entries
    ELSE SubSeq(entries, 1, findIndex(entries, ch) - 1)

\* gcfg.entries.filter(e => e.channelId !== channel.id)
RECURSIVE filterOut(_, _)
filterOut(entries, ch) ==
    IF entries = << >>
    THEN << >>
    ELSE IF Head(entries).channelId # ch
         THEN <<Head(entries)>> \o filterOut(Tail(entries), ch)
         ELSE filterOut(Tail(entries), ch)

\* /crypto-add with a channel that is neither voice nor text
CryptoAddBadChannel(slot) ==
    /\ cmds[slot].pc = "auth"
    /\ Commit(Reply(EndCmd(Authorized(slot), slot), cmds[slot].guildId, "badchannel"))
    /\ UNCHANGED <<readyPc, coinListCache>>

\* /crypto-add up to await interaction.deferReply
CryptoAdd(slot, opt) ==
    /\ cmds[slot].pc = "auth"
    /\ LET coin == trim(toLowerCase(opt.coin))
           label == trim(opt.label)
       IN  Commit([Authorized(slot) EXCEPT
                      !.cmds[slot] = Cmd("defer", cmds[slot].guildId, opt.channel,
                                         coin, label)])
    /\ UNCHANGED <<readyPc, coinListCache>>

\* /crypto-add after validateCoinId has answered from list: reject, or upsert
\* the mapping and await fetchUsdPrice
AddValidated(slot, list) ==
    LET c == cmds[slot]
        g == c.guildId
    IN  IF ~validateCoinId(list, c.coin)
        THEN Reply(EndCmd(Now, slot), g, "notfound")
        ELSE Emit([Now EXCEPT
                      !.config[g].entries =
                          upsert(@, [channelId |-> c.channelId, coin |-> c.coin,
                                     label |-> c.label]),
                      !.cmds[slot] = Cmd("price", g, c.channelId, "", "")],
                  [ev |-> "upsert", guildId |-> g, channelId |-> c.channelId,
                   coin |-> c.coin, label |-> c.label])

\* await interaction.deferReply returns (a throwing one lands in the
\* handler's catch); getCoinList answers from the cache when it holds a list
\* and fresh, that is now - coinListCache.fetchedAt is under six hours as
\* getCoinList reads the clock, and awaits the fetch of /coins/list otherwise
\* (pc "coinlist" with nothing cached, "refetch" with a stale list cached)
DeferReturn(slot, ok, fresh) ==
    /\ cmds[slot].pc = "defer"
    /\ IF ~ok
       THEN Commit(Reply(EndCmd(Now, slot), cmds[slot].guildId, "error"))
       ELSE IF coinListCache.list # {} /\ fresh
       THEN Commit(AddValidated(slot, coinListCache.list))
       ELSE Commit(Emit([Now EXCEPT !.cmds[slot].pc =
                                        IF coinListCache.list = {}
                                        THEN "coinlist" ELSE "refetch"],
                        [ev |-> "coinlist", guildId |-> cmds[slot].guildId,
                         cached |-> coinListCache.list]))
    /\ UNCHANGED <<readyPc, coinListCache>>

\* The fetch of /coins/list returns: not ok throws into the handler's catch,
\* ok replaces the cache and validateCoinId goes on
CoinListReturn(slot, ok) ==
    /\ cmds[slot].pc \in {"coinlist", "refetch"}
    /\ IF ~ok
       THEN /\ Commit(Reply(EndCmd(Now, slot), cmds[slot].guildId, "error"))
            /\ UNCHANGED coinListCache
       ELSE /\ coinListCache' = [list |-> Catalog]
            /\ Commit(AddValidated(slot, Catalog))
    /\ UNCHANGED readyPc

\* await fetchUsdPrice(coin) returns a number (the preview rename is
\* requested) or null (the handler replies)
PriceReturn(slot, hasPrice) ==
    /\ cmds[slot].pc = "price"
    /\ LET c == cmds[slot] IN
       IF hasPrice
       THEN Commit(Emit([Now EXCEPT !.cmds[slot].pc = "preview"],
                        [ev |-> "preview", guildId |-> c.guildId,
                         channelId |-> c.channelId]))
       ELSE Commit(Reply(EndCmd(Now, slot), c.guildId, "added"))
    /\ UNCHANGED <<readyPc, coinListCache>>

\* await channel.setName(preview) returns or throws (ignored)
PreviewReturn(slot) ==
    /\ cmds[slot].pc = "preview"
    /\ Commit(Reply(EndCmd(Now, slot), cmds[slot].guildId, "added"))
    /\ UNCHANGED <<readyPc, coinListCache>>

\* Detach with the array read before the price fetch (const entries =
\* gcfg.entries ahead of the await): a tick suspended in its fetch keeps the
\* old array as well
DetachAtFetch(st, g) ==
    [st EXCEPT !.ticks =
        [s \in TickSlots |->
            IF @[s].pc \in {"fetch", "rename"} /\ @[s].guildId = g /\ @[s].live
            THEN [@[s] EXCEPT !.live = FALSE, !.snap = st.config[g].entries]
            ELSE @[s]]]

\* gcfg.entries = filtered array: a loop already iterating keeps the old one
Detach(st, g) ==
    [st EXCEPT !.ticks =
        [s \in TickSlots |->
            IF @[s].pc = "rename" /\ @[s].guildId = g /\ @[s].live
            THEN [@[s] EXCEPT !.live = FALSE, !.snap = st.config[g].entries]
            ELSE @[s]]]

\* /crypto-remove
CryptoRemove(slot, ch) ==
    /\ cmds[slot].pc = "auth"
    /\ LET g == cmds[slot].guildId
           s1 == Detach(EndCmd(Authorized(slot), slot), g)
           before == Len(s1.config[g].entries)
           s2 == [s1 EXCEPT !.config[g].entries = filterOut(@, ch)]
           removed == before # Len(s2.config[g].entries)
       IN  Commit(Emit(s2, [ev |-> "remove", guildId |-> g, channelId |-> ch,
                            removed |-> removed]))
    /\ UNCHANGED <<readyPc, coinListCache>>

\* /crypto-list
CryptoList(slot) ==
    /\ cmds[slot].pc = "auth"
    /\ Commit(Reply(EndCmd(Authorized(slot), slot), cmds[slot].guildId, "list"))
    /\ UNCHANGED <<readyPc, coinListCache>>

\* /crypto-interval with the assignment of line 389 ahead of the range test
CryptoIntervalStoresFirst(slot, minutes) ==
    /\ cmds[slot].pc = "auth"
    /\ LET g == cmds[slot].guildId
           s1 == EndCmd(Authorized(slot), slot)
           s2 == [s1 EXCEPT !.config[g].intervalMinutes = minutes]
       IN  IF minutes < 1 \/ minutes > 1440
           THEN Commit(Reply(s2, g, "badinterval"))
           ELSE LET s3 == IF s2.config[g].running THEN startGuildTimer(s2, g) ELSE s2
                IN  Commit(Reply(s3, g, "interval"))
    /\ UNCHANGED <<readyPc, coinListCache>>

\* /crypto-interval without line 391: the new interval is stored and the
\* running timer keeps its period
CryptoIntervalNoRestart(slot, minutes) ==
    /\ cmds[slot].pc = "auth"
    /\ LET g == cmds[slot].guildId
           s1 == EndCmd(Authorized(slot), slot)
       IN  IF minutes < 1 \/ minutes > 1440
           THEN Commit(Reply(s1, g, "badinterval"))
           ELSE Commit(Reply([s1 EXCEPT !.config[g].intervalMinutes = minutes],
                             g, "interval"))
    /\ UNCHANGED <<readyPc, coinListCache>>

\* /crypto-interval
CryptoInterval(slot, minutes) ==
    /\ cmds[slot].pc = "auth"
    /\ LET g == cmds[slot].guildId
           s1 == EndCmd(Authorized(slot), slot)
       IN  IF minutes < 1 \/ minutes > 1440
           THEN Commit(Reply(s1, g, "badinterval"))
           ELSE LET s2 == [s1 EXCEPT !.config[g].intervalMinutes = minutes]
                    s3 == IF s2.config[g].running THEN startGuildTimer(s2, g) ELSE s2
                IN  Commit(Reply(s3, g, "interval"))
    /\ UNCHANGED <<readyPc, coinListCache>>

\* /crypto-start
CryptoStart(slot) ==
    /\ cmds[slot].pc = "auth"
    /\ LET g == cmds[slot].guildId
           s1 == EndCmd(Authorized(slot), slot)
       IN  IF s1.config[g].running
           THEN Commit(Reply(s1, g, "alreadyrunning"))
           ELSE Commit(Reply(startGuildTimer(
                                 [s1 EXCEPT !.config[g].running = TRUE], g),
                             g, "started"))
    /\ UNCHANGED <<readyPc, coinListCache>>

\* /crypto-stop
CryptoStop(slot) ==
    /\ cmds[slot].pc = "auth"
    /\ LET g == cmds[slot].guildId
           s1 == EndCmd(Authorized(slot), slot)
       IN  IF ~s1.config[g].running
           THEN Commit(Reply(s1, g, "alreadystopped"))
           ELSE Commit(Reply(stopGuildTimer(
                                 [s1 EXCEPT !.config[g].running = FALSE], g),
                             g, "stopped"))
    /\ UNCHANGED <<readyPc, coinListCache>>

(***************************************************************************)
(* Specifications                                                          *)
(***************************************************************************)
NextOver(E) ==
    \/ ReadyBegin
    \/ ReadyFinish
    \/ \E g \in E.guilds : GuildCreate(g)
    \/ \E g \in E.guilds : GuildDelete(g)
    \/ \E h \in DOMAIN intervals : TimerFire(h)
    \/ \E slot \in TickSlots, ok \in BOOLEAN, result \in SUBSET Catalog,
          perm \in BOOLEAN, present \in SUBSET E.channels :
          FetchReturn(slot, ok, result, perm, present)
    \/ \E slot \in TickSlots, ok \in BOOLEAN, perm \in BOOLEAN,
          present \in SUBSET E.channels : RenameReturn(slot, ok, perm, present)
    \/ \E g \in E.guilds : InteractionCreate(g)
    \/ \E slot \in CmdSlots : Denied(slot)
    \/ \E slot \in CmdSlots : CryptoAddBadChannel(slot)
    \/ \E slot \in CmdSlots, opt \in E.addOptions : CryptoAdd(slot, opt)
    \/ \E slot \in CmdSlots, ok \in BOOLEAN, fresh \in BOOLEAN :
          DeferReturn(slot, ok, fresh)
    \/ \E slot \in CmdSlots, ok \in BOOLEAN : CoinListReturn(slot, ok)
    \/ \E slot \in CmdSlots, hasPrice \in BOOLEAN : PriceReturn(slot, hasPrice)
    \/ \E slot \in CmdSlots : PreviewReturn(slot)
    \/ \E slot \in CmdSlots, ch \in E.channels : CryptoRemove(slot, ch)
    \/ \E slot \in CmdSlots : CryptoList(slot)
    \/ \E slot \in CmdSlots, minutes \in E.minutes : CryptoInterval(slot, minutes)
    \/ \E slot \in CmdSlots : CryptoStart(slot)
    \/ \E slot \in CmdSlots : CryptoStop(slot)

\* One guild whose users map both channels to the coins of the catalog and
\* re-send the default interval.
Mappings ==
    Env({"g1"}, Channels, { o \in AddOptions : o.coin # "notacoin" }, {10})

Init == InitOver(Mappings)

Next == NextOver(Mappings)

Spec == Init /\ [][Next]_vars

\* One guild whose users map one channel, to a known or an unknown coin, and
\* send every interval of MinutesOptions.
Scheduling ==
    Env({"g1"}, {"c1"}, { o \in AddOptions : o.channel = "c1" /\ o.coin # " Ethereum " },
        MinutesOptions)

InitSched == InitOver(Scheduling)

NextSched == NextOver(Scheduling)

SpecSched == InitSched /\ [][NextSched]_vars

(***************************************************************************)
(* Fairness.  The armed interval of a guild keeps firing (Node's timer     *)
(* queue), and awaited calls of suspended handlers keep settling.  The     *)
(* timer is strongly fair because the model refuses a tick that would      *)
(* suspend while MaxInFlight handlers are suspended.                       *)
(***************************************************************************)
TimerFires(g) ==
    \E h \in DOMAIN intervals : intervals[h].guildId = g /\ TimerFire(h)

TickSettles ==
    \E slot \in TickSlots, ok \in BOOLEAN, result \in SUBSET Catalog,
       perm \in BOOLEAN, present \in SUBSET Channels :
        \/ FetchReturn(slot, ok, result, perm, present)
        \/ RenameReturn(slot, ok, perm, present)

CmdSettles ==
    \E slot \in CmdSlots :
        \/ Denied(slot)
        \/ CryptoList(slot)
        \/ \E ok \in BOOLEAN, fresh \in BOOLEAN : DeferReturn(slot, ok, fresh)
        \/ \E ok \in BOOLEAN : CoinListReturn(slot, ok)
        \/ \E hasPrice \in BOOLEAN : PriceReturn(slot, hasPrice)
        \/ PreviewReturn(slot)

Fairness(E) ==
    /\ \A g \in E.guilds : SF_vars(TimerFires(g))
    /\ WF_vars(TickSettles \/ CmdSettles)

\* One guild whose users map one channel to one coin and re-send the default
\* interval, under fairness.
Ticking ==
    Env({"g1"}, {"c1"}, { o \in AddOptions : o.channel = "c1" /\ o.coin = "bitcoin" },
        {10})

InitTick == InitOver(Ticking)

NextTick == NextOver(Ticking)

SpecTickFair == InitTick /\ [][NextTick]_vars /\ Fairness(Ticking)

\* Two guilds: the users of g1 map one channel to one coin and re-send the
\* default interval, and g1 joins and leaves; g2 is a member from the start,
\* with the settings config.json holds for it (none, or running or stopped
\* with one mapping), and receives nothing but its timer's ticks.
TwoGuilds ==
    Env({"g1"}, {"c1"}, { o \in AddOptions : o.channel = "c1" /\ o.coin = "bitcoin" },
        {10})

StoredMapping == [channelId |-> "c1", coin |-> "bitcoin", label |-> "BTC"]

StoredConfigs ==
    { << >> } \cup
    { [g \in {"g2"} |-> [DefaultCfg EXCEPT !.running = r,
                                           !.entries = <<StoredMapping>>]]
      : r \in BOOLEAN }

InitTwo ==
    /\ readyPc = "start"
    /\ guildsCache \in {{"g2"}, {"g1", "g2"}}
    /\ config \in { a @@ b : a \in InitConfigs({"g1"}), b \in StoredConfigs }
    /\ coinListCache = [list |-> {}]
    /\ timers = << >>
    /\ intervals = << >>
    /\ ticks = [s \in TickSlots |-> Idle]
    /\ cmds = [s \in CmdSlots |-> Idle]
    /\ emitted = << >>

NextTwo == NextOver(TwoGuilds)

SpecTwo == InitTwo /\ [][NextTwo]_vars

(***************************************************************************)
(* Properties                                                              *)
(***************************************************************************)
\* The last stretch emitted an event of this kind about guild g.
Has(kind, g) == EventsOf(emitted, kind, g) # {}

\* The armed intervals whose callback runs the tick of guild g.
IntervalsOf(g) == { h \in DOMAIN intervals : intervals[h].guildId = g }

\* C1: in every reachable state a guild whose running flag is false (or that
\* has no settings record) has no handle in the timer map, every guild has at
\* most one armed interval, and that one is the handle the map holds for it,
\* so no interval outlives its replacement or its stop.
C1_TimerDiscipline ==
    \A g \in Guilds :
        /\ (g \notin DOMAIN config \/ ~config[g].running) => g \notin DOMAIN timers
        /\ Cardinality(IntervalsOf(g)) <= 1
        /\ IntervalsOf(g) = IF g \in DOMAIN timers THEN {timers[g]} ELSE {}

\* C1 witness: a running timer has just been replaced (its interval cleared
\* and a new one armed in the same stretch).
C1_Witness ==
    \E g \in Guilds :
        /\ Has("clear", g) /\ Has("arm", g)
        /\ g \in DOMAIN timers
        /\ config[g].running

\* C2: a reconciliation of guild g is invoked only by a stretch that begins
\* with g's timer armed or that arms it: from the stop of the timer until it
\* is started again, for whatever interval it had been started with, no step
\* invokes updateGuildMappings for g.
C2_NoTickAfterStop ==
    [][ \A g \in Guilds :
            (EventsOf(emitted', "invoke", g) # {})
                => (g \in DOMAIN timers \/ EventsOf(emitted', "arm", g) # {}) ]_vars

\* C2 witness: the timer of a guild, started with the interval 1440, has been
\* stopped by /crypto-stop.
C2_Witness ==
    \E g \in Guilds :
        /\ \E i \in EventsOf(emitted, "clear", g) :
               emitted[i].periodMs = 1440 * 60 * 1000
        /\ \E i \in EventsOf(emitted, "reply", g) : emitted[i].text = "stopped"
        /\ g \notin DOMAIN timers
        /\ IntervalsOf(g) = {}

\* A stretch of a reconciliation of guild g has just met a failure: the bulk
\* fetch failed, an entry had no price, no channel or no permission, or a
\* rename threw.
TickFailedIn(out, g) ==
    \E i \in DOMAIN out :
        /\ out[i].guildId = g
        /\ \/ out[i].ev = "fetchResult" /\ ~out[i].ok
           \/ out[i].ev = "entry" /\ out[i].outcome \in {"noprice", "nochannel", "noperm"}
           \/ out[i].ev = "renameResult" /\ ~out[i].ok

\* C3: a stretch of a tick that meets a failure changes neither the timer map
\* nor the armed intervals, and if the guild's timer is registered then,
\* with the timer fair, a reconciliation of the guild is invoked again unless
\* the handle is taken out of the map (stop, guild-leave).
C3_TimerSurvivesFailure ==
    /\ [][ \A g \in Guilds :
               TickFailedIn(emitted', g)
                   => (timers' = timers /\ intervals' = intervals) ]_vars
    /\ \A g \in Guilds :
           (TickFailedIn(emitted, g) /\ g \in DOMAIN timers)
               ~> (Has("invoke", g) \/ g \notin DOMAIN timers)

\* C3 witness: a rename has just thrown in a guild whose timer is armed.
C3_Witness ==
    \E g \in Guilds :
        /\ \E i \in EventsOf(emitted, "renameResult", g) : ~emitted[i].ok
        /\ g \in DOMAIN timers
        /\ IntervalsOf(g) = {timers[g]}

\* The event after position i of a stretch continues the loop past index k:
\* the entry k + 1, or the end of the loop on an array of k entries.
LoopGoesOn(out, i, g, k) ==
    /\ i < Len(out)
    /\ out[i + 1].guildId = g
    /\ \/ out[i + 1].ev = "entry" /\ out[i + 1].index = k + 1
       \/ out[i + 1].ev = "tickDone" /\ out[i + 1].len = k

\* C4: an entry with a price and a resolved channel that finds the permission
\* missing is not renamed and is the last entry of its tick (the loop ends
\* right after it), the stretch leaves the timer map and the armed intervals
\* alone, and every reconciliation starts its loop at the first entry.
C4_NoPermissionHaltsTick ==
    [][ \A i \in DOMAIN emitted' :
            /\ (emitted'[i].ev = "entry" /\ emitted'[i].perm = "no") =>
                   /\ emitted'[i].coin \in emitted'[i].prices
                   /\ emitted'[i].found = "yes"
                   /\ emitted'[i].outcome = "noperm"
                   /\ i + 1 = Len(emitted')
                   /\ emitted'[i + 1].ev = "tickDone"
                   /\ \A s \in TickSlots : ticks'[s].pc = "rename" => ticks'[s] = ticks[s]
                   /\ timers' = timers
                   /\ intervals' = intervals
            /\ (emitted'[i].ev = "entry"
                    /\ emitted'[i].coin \in emitted'[i].prices
                    /\ emitted'[i].found = "yes") => emitted'[i].perm # "unread"
            /\ emitted'[i].ev = "fetchResult" =>
                   LoopGoesOn(emitted', i, emitted'[i].guildId, 0) ]_vars

\* C4 witness: the first of two entries met the missing permission and the
\* loop ended there, with the guild's timer armed.
C4_Witness ==
    /\ Len(emitted) >= 2
    /\ \E i \in DOMAIN emitted :
           /\ emitted[i].ev = "entry"
           /\ emitted[i].outcome = "noperm"
           /\ emitted[i].index = 1
           /\ emitted[i + 1].ev = "tickDone"
           /\ emitted[i + 1].len = 2
           /\ emitted[i].guildId \in DOMAIN timers

\* C5: an entry whose coin has no price in the bulk result is skipped without
\* a channel lookup or rename and the loop goes on with the next entry; an
\* entry whose coin has a price reaches the channel lookup, and the rename
\* when the channel resolves and the permission is there.
C5_MissingPriceSkipsOnlyThatEntry ==
    \A i \in DOMAIN emitted :
        emitted[i].ev = "entry" =>
            IF emitted[i].coin \notin emitted[i].prices
            THEN /\ emitted[i].outcome = "noprice"
                 /\ emitted[i].found = "unread"
                 /\ LoopGoesOn(emitted, i, emitted[i].guildId, emitted[i].index)
            ELSE /\ emitted[i].found # "unread"
                 /\ (emitted[i].found = "yes" /\ emitted[i].perm = "yes")
                        <=> emitted[i].outcome = "rename"

\* C5 witness: the first entry had no price and the second, priced, was renamed.
C5_Witness ==
    \E i \in DOMAIN emitted :
        /\ emitted[i].ev = "entry"
        /\ emitted[i].index = 1
        /\ emitted[i].outcome = "noprice"
        /\ i < Len(emitted)
        /\ emitted[i + 1].ev = "entry"
        /\ emitted[i + 1].index = 2
        /\ emitted[i + 1].outcome = "rename"

\* The distinct case-folded coins of a guild's entries.
DistinctCoins(g) ==
    { toLowerCase(config[g].entries[k].coin) : k \in DOMAIN config[g].entries }

\* C6: a reconciliation of a guild in the cache with entries issues one bulk
\* fetch, right after it is invoked, whose ids are the distinct lower-cased
\* coins of the entries, each once; a reconciliation of a guild that is not
\* in the cache or has no entries issues none.
C6_OneBatchedFetch ==
    \A g \in Guilds :
        LET invokes == EventsOf(emitted, "invoke", g)
            fetches == EventsOf(emitted, "fetch", g)
        IN  /\ Cardinality(invokes) <= 1
            /\ \A j \in fetches : j - 1 \in invokes
            /\ \A i \in invokes :
                   IF g \in guildsCache /\ config[g].entries # << >>
                   THEN /\ fetches = {i + 1}
                        /\ Range(emitted[i + 1].ids) = DistinctCoins(g)
                        /\ Len(emitted[i + 1].ids) = Cardinality(DistinctCoins(g))
                        /\ \E s \in TickSlots :
                               /\ ticks[s].pc = "fetch"
                               /\ ticks[s].guildId = g
                               /\ ticks[s].ids = DistinctCoins(g)
                   ELSE fetches = {}

\* C6 witness: two channels mapped to the same coin, one id requested.
C6_Witness ==
    \E g \in Guilds :
        /\ g \in DOMAIN config
        /\ Len(config[g].entries) = 2
        /\ \E i \in EventsOf(emitted, "fetch", g) : Len(emitted[i].ids) = 1

\* C7: after a rename that threw, the loop goes on with the next entry in
\* stored order, as it does after every skipped entry, and the stretch
\* changes no guild's entries, interval or running flag.
C7_RenameFailureContinues ==
    [][ \A i \in DOMAIN emitted' :
            /\ (emitted'[i].ev = "renameResult" /\ ~emitted'[i].ok) =>
                   /\ LoopGoesOn(emitted', i, emitted'[i].guildId, emitted'[i].index)
                   /\ config' = config
            /\ (emitted'[i].ev = "entry"
                    /\ emitted'[i].outcome \in {"noprice", "nochannel"}) =>
                   LoopGoesOn(emitted', i, emitted'[i].guildId, emitted'[i].index) ]_vars

\* C7 witness: the rename of the first entry threw and the second entry was
\* processed after it.
C7_Witness ==
    \E i \in DOMAIN emitted :
        /\ emitted[i].ev = "renameResult"
        /\ ~emitted[i].ok
        /\ emitted[i].index = 1
        /\ i < Len(emitted)
        /\ emitted[i + 1].ev = "entry"
        /\ emitted[i + 1].index = 2

\* The entries of guild g in cfg, none when it has no record.
EntriesIn(cfg, g) == IF g \in DOMAIN cfg THEN cfg[g].entries ELSE << >>

\* The indices of the entries that map channel ch.
IndicesOf(entries, ch) == { k \in DOMAIN entries : entries[k].channelId = ch }

\* C8: the upsert of /crypto-add for a channel that is mapped puts the new
\* coin and label at the index of the old mapping and leaves the length and
\* every other entry as they were; for a channel that is not mapped it
\* appends the new mapping.
C8_UpsertInPlace ==
    [][ \A i \in DOMAIN emitted' :
            emitted'[i].ev = "upsert" =>
                LET g == emitted'[i].guildId
                    old == EntriesIn(config, g)
                    new == EntriesIn(config', g)
                    added == [channelId |-> emitted'[i].channelId,
                              coin |-> emitted'[i].coin, label |-> emitted'[i].label]
                    at == IndicesOf(old, added.channelId)
                IN  IF at # {}
                    THEN /\ Len(new) = Len(old)
                         /\ \A k \in DOMAIN old :
                                new[k] = IF k \in at THEN added ELSE old[k]
                    ELSE new = Append(old, added) ]_vars

\* C8 witness: a channel mapped by the first of two entries has just been
\* upserted and is still the first of two.
C8_Witness ==
    \E i \in DOMAIN emitted :
        /\ emitted[i].ev = "upsert"
        /\ Len(config[emitted[i].guildId].entries) = 2
        /\ config[emitted[i].guildId].entries[1].channelId = emitted[i].channelId
        /\ config[emitted[i].guildId].entries[1].coin = emitted[i].coin

\* C9: no guild's entries hold two mappings of one channel.
C9_OneMappingPerChannel ==
    \A g \in DOMAIN config :
        \A j, k \in DOMAIN config[g].entries :
            config[g].entries[j].channelId = config[g].entries[k].channelId => j = k

\* C9 witness: two /crypto-add commands for one channel of one guild are both
\* past their upsert and suspended in the preview rename.
C9_Witness ==
    /\ cmds[1].pc = "preview"
    /\ cmds[2].pc = "preview"
    /\ cmds[1].guildId = cmds[2].guildId
    /\ cmds[1].channelId = cmds[2].channelId
    /\ Cardinality(IndicesOf(config[cmds[1].guildId].entries, cmds[1].channelId)) = 1

\* C10: /crypto-remove for a channel that is not mapped leaves the entries as
\* they were and reports nothing removed; for a mapped channel it reports
\* the removal and leaves the other entries, in their order.
C10_RemoveExact ==
    [][ \A i \in DOMAIN emitted' :
            emitted'[i].ev = "remove" =>
                LET g == emitted'[i].guildId
                    ch == emitted'[i].channelId
                    old == EntriesIn(config, g)
                    new == EntriesIn(config', g)
                    at == IndicesOf(old, ch)
                IN  IF at = {}
                    THEN new = old /\ ~emitted'[i].removed
                    ELSE /\ emitted'[i].removed
                         /\ Len(new) = Len(old) - 1
                         /\ new = SelectSeq(old, LAMBDA e : e.channelId # ch) ]_vars

\* C10 witness: a removal for a channel that was not mapped, in a guild that
\* has a mapping.
C10_Witness ==
    \E i \in DOMAIN emitted :
        /\ emitted[i].ev = "remove"
        /\ ~emitted[i].removed
        /\ config[emitted[i].guildId].entries # << >>

\* The last stretch of out answered a command of guild g with text.
Replied(out, g, text) ==
    \E i \in EventsOf(out, "reply", g) : out[i].text = text

\* The running flag a handler reads for guild g in cfg (getGuildCfg creates a
\* missing record running).
RunningIn(cfg, g) == IF g \in DOMAIN cfg THEN cfg[g].running ELSE TRUE

\* The stretch that emitted out re-armed the timer of g, which held the
\* handles before: the old interval, if any, was cleared, one reconciliation
\* was invoked and a new interval was armed.
ReArmed(out, g, before) ==
    /\ g \in DOMAIN before => EventsOf(out, "clear", g) # {}
    /\ EventsOf(out, "invoke", g) # {}
    /\ EventsOf(out, "arm", g) # {}

\* C11 as claimed: every answered /crypto-start and every accepted
\* /crypto-interval re-arms the guild's timer whatever the running flag was,
\* and every /crypto-stop leaves running false and no timer.
C11_EveryStartReArms ==
    [][ \A g \in Guilds :
            /\ (Replied(emitted', g, "started")
                    \/ Replied(emitted', g, "alreadyrunning")
                    \/ Replied(emitted', g, "interval"))
                   => ReArmed(emitted', g, timers)
            /\ (Replied(emitted', g, "stopped")
                    \/ Replied(emitted', g, "alreadystopped"))
                   => (~config'[g].running /\ g \notin DOMAIN timers') ]_vars

\* C11 amended: /crypto-start on a guild whose running flag is false and an
\* accepted /crypto-interval on a guild whose running flag is true re-arm the
\* guild's timer; /crypto-start on a guild whose flag is already true and
\* /crypto-interval on a stopped guild invoke nothing and leave the timer
\* map and the armed intervals as they were; every /crypto-stop leaves
\* running false and no timer.
C11_StartReArmsWhenStopped ==
    [][ \A g \in Guilds :
            /\ Replied(emitted', g, "started") =>
                   (~RunningIn(config, g) /\ config'[g].running
                        /\ ReArmed(emitted', g, timers) /\ g \in DOMAIN timers')
            /\ Replied(emitted', g, "alreadyrunning") =>
                   (RunningIn(config, g) /\ EventsOf(emitted', "invoke", g) = {}
                        /\ timers' = timers /\ intervals' = intervals)
            /\ Replied(emitted', g, "interval") =>
                   IF RunningIn(config, g)
                   THEN ReArmed(emitted', g, timers) /\ g \in DOMAIN timers'
                            /\ intervals'[timers'[g]].periodMs
                                   = config'[g].intervalMinutes * 60 * 1000
                   ELSE EventsOf(emitted', "invoke", g) = {}
                            /\ timers' = timers /\ intervals' = intervals
            /\ (Replied(emitted', g, "stopped")
                    \/ Replied(emitted', g, "alreadystopped"))
                   => (~config'[g].running /\ g \notin DOMAIN timers'
                           /\ IntervalsOf(g)' = {}) ]_vars

\* C11 witness: an accepted /crypto-interval has just replaced the armed
\* timer of a running guild by one with the longest period.
C11_Witness ==
    \E g \in Guilds :
        /\ Replied(emitted, g, "interval")
        /\ Has("clear", g) /\ Has("invoke", g) /\ Has("arm", g)
        /\ g \in DOMAIN timers
        /\ intervals[timers[g]].periodMs = 1440 * 60 * 1000

\* The settings a handler reads for guild g in cfg: its record, or the
\* defaults getGuildCfg creates for a guild that has none.
SettingsIn(cfg, g) == IF g \in DOMAIN cfg THEN cfg[g] ELSE DefaultCfg

\* The step is a stretch of a command of guild g that is rejected for
\* validation or has not passed validation yet: /crypto-add up to
\* deferReply, deferReply up to the catalog fetch, the "not found" answer,
\* and the "bad interval" answer.
Unvalidated(g) ==
    \/ Replied(emitted', g, "notfound")
    \/ Replied(emitted', g, "badinterval")
    \/ \E s \in CmdSlots :
           /\ \/ cmds[s].pc = "auth" /\ cmds'[s].pc = "defer"
              \/ cmds[s].pc = "defer" /\ cmds'[s].pc \in {"coinlist", "refetch"}
           /\ cmds'[s].guildId = g

\* C12: no stretch of a command that is rejected for validation (unknown coin
\* id, minutes outside 1..1440) changes the settings of any guild (entries,
\* intervalMinutes, running; a record created with the defaults for a guild
\* that had none holds the settings the guild had), the timer map or the
\* armed intervals, and none invokes a reconciliation.
C12_RejectedCommandChangesNothing ==
    [][ \A g \in Guilds :
            Unvalidated(g) =>
                /\ \A k \in Guilds : SettingsIn(config', k) = SettingsIn(config, k)
                /\ timers' = timers
                /\ intervals' = intervals
                /\ ticks' = ticks
                /\ \A k \in Guilds : EventsOf(emitted', "invoke", k) = {} ]_vars

\* C12 witness: an unknown coin id has just been rejected in a guild that has
\* a mapping and an armed timer.
C12_Witness ==
    \E g \in Guilds :
        /\ Replied(emitted, g, "notfound")
        /\ g \in DOMAIN timers
        /\ config[g].entries # << >>

\* C13 as claimed: when a /crypto-add found a stale catalog in the cache and
\* awaited the refetch of /coins/list, the command is answered from a catalog
\* (it upserts the mapping or answers "not found") whether the refetch
\* succeeded or failed; the error of a failed fetch surfaces only when no
\* catalog was cached.
C13_StaleCatalogAnswers ==
    [][ \A s \in CmdSlots :
            (cmds[s].pc = "refetch" /\ cmds'[s].pc # "refetch")
                => (EventsOf(emitted', "upsert", cmds[s].guildId) # {}
                        \/ Replied(emitted', cmds[s].guildId, "notfound")) ]_vars

\* The last stretch of out did something about guild g.
About(out, g) == \E i \in DOMAIN out : out[i].guildId = g

\* What is kept about guild g: its handle in the timer map, its armed
\* intervals, its settings record and its suspended reconciliations.
GuildSide(g) ==
    [timer |-> IF g \in DOMAIN timers THEN {timers[g]} ELSE {},
     armed |-> { <<h, intervals[h].periodMs>> : h \in IntervalsOf(g) },
     settings |-> IF g \in DOMAIN config THEN {config[g]} ELSE {},
     suspended |-> { <<s, ticks[s]>> : s \in { r \in TickSlots :
                        ticks[r] # Idle /\ ticks[r].guildId = g } }]

\* C14: a stretch that is about guild A only (a tick of A with whatever
\* outcome, a start, stop or restart of A's timer) leaves the timer handle,
\* the armed interval, the settings and the suspended reconciliations of
\* every other guild B as they were.
C14_OtherGuildUntouched ==
    [][ \A A, B \in Guilds :
            (A # B /\ About(emitted', A) /\ ~About(emitted', B))
                => GuildSide(B)' = GuildSide(B) ]_vars

\* C14 witness: a rename of one guild has just thrown, or its timer has just
\* been replaced, while another guild has a mapping, an armed timer and a
\* reconciliation suspended.
C14_Witness ==
    \E A, B \in Guilds :
        /\ A # B
        /\ \/ \E i \in EventsOf(emitted, "renameResult", A) : ~emitted[i].ok
           \/ Has("clear", A) /\ Has("arm", A)
        /\ ~About(emitted, B)
        /\ B \in DOMAIN timers
        /\ config[B].entries # << >>
        /\ \E s \in TickSlots : ticks[s] # Idle /\ ticks[s].guildId = B

\* The reconciliations of guild g that are suspended in a rename.
Renaming(g) ==
    { s \in TickSlots : ticks[s].pc = "rename" /\ ticks[s].guildId = g }

\* Within the stretch that emitted out the loop took the entries one after
\* the other: the first entry follows the result of the bulk fetch, every
\* later entry follows the skipped entry or the settled rename of the index
\* before it, and a requested rename ends the stretch.
InStoredOrder(out) ==
    \A i \in DOMAIN out :
        out[i].ev = "entry" =>
            /\ i > 1
            /\ out[i - 1].guildId = out[i].guildId
            /\ IF out[i].index = 1
               THEN out[i - 1].ev = "fetchResult"
               ELSE \/ /\ out[i - 1].ev = "entry"
                       /\ out[i - 1].index = out[i].index - 1
                       /\ out[i - 1].outcome \in {"noprice", "nochannel"}
                    \/ /\ out[i - 1].ev = "renameResult"
                       /\ out[i - 1].index = out[i].index - 1
            /\ out[i].outcome = "rename" => i = Len(out)

\* C15 as claimed: the loop takes the entries in stored order, each rename
\* after the one before has settled, and no guild ever has two renames of
\* the reconciliation loop outstanding.
C15_OneRenameOutstanding ==
    /\ InStoredOrder(emitted)
    /\ \A g \in Guilds : Cardinality(Renaming(g)) <= 1

\* C15 amended: each reconciliation takes the entries in stored order and
\* requests a rename only after its previous one has settled, so it has at
\* most one rename outstanding: a settled rename belongs to a reconciliation
\* that was suspended at that index, and that reconciliation ends or is
\* suspended at a later index.  (Reconciliations of one guild may overlap.)
C15_SequentialWithinReconciliation ==
    [][ /\ InStoredOrder(emitted')
        /\ \A i \in DOMAIN emitted' :
               emitted'[i].ev = "renameResult" =>
                   /\ i = 1
                   /\ \E s \in Renaming(emitted'[i].guildId) :
                          /\ ticks[s].idx = emitted'[i].index
                          /\ \/ ticks'[s] = Idle
                             \/ /\ ticks'[s].pc = "rename"
                                /\ ticks'[s].idx > ticks[s].idx
                          /\ \A r \in TickSlots \ {s} : ticks'[r] = ticks[r]
        /\ \A s \in TickSlots :
               (ticks'[s].pc = "rename"
                    /\ (ticks[s].pc # "rename" \/ ticks[s].idx # ticks'[s].idx)) =>
                   /\ ticks[s].pc \in {"fetch", "rename"}
                   /\ emitted'[Len(emitted')].ev = "entry"
                   /\ emitted'[Len(emitted')].index = ticks'[s].idx ]_vars

\* C15 witness: two reconciliations of one guild overlap, both suspended in
\* a rename, one of them at its second entry after its first rename settled.
C15_Witness ==
    \E g \in Guilds :
        /\ Cardinality(Renaming(g)) = 2
        /\ \E s \in Renaming(g) : ticks[s].idx = 2
        /\ Has("renameResult", g)

\* The reconciliations of guild g that are suspended in an external call.
Suspended(g) ==
    { s \in TickSlots : ticks[s] # Idle /\ ticks[s].guildId = g }

\* C16 as claimed: no reconciliation of a guild is invoked while an external
\* call (the bulk fetch or a rename) of an earlier reconciliation of that
\* guild is outstanding.
C16_HungTickHoldsUpNextTick ==
    [][ \A g \in Guilds :
            EventsOf(emitted', "invoke", g) # {} => Suspended(g) = {} ]_vars

\* C16 amended: an outstanding external call holds up its own reconciliation
\* only.  The suspended reconciliation stays where it is until that call
\* returns (no later entry of it is processed by any other step), while a
\* reconciliation invoked for the guild in the meantime starts as any other:
\* with the guild in the cache and entries stored it issues its bulk fetch
\* and is suspended next to the earlier one.
C16_HungCallHoldsUpOwnTickOnly ==
    [][ /\ \A s \in TickSlots :
               ticks[s] # Idle =>
                   \/ /\ ticks'[s] # Idle
                      /\ ticks'[s].guildId = ticks[s].guildId
                      /\ ticks'[s].pc = ticks[s].pc
                      /\ ticks'[s].idx = ticks[s].idx
                   \/ /\ emitted' # << >>
                      /\ emitted'[1].ev =
                             (IF ticks[s].pc = "fetch" THEN "fetchResult"
                                                       ELSE "renameResult")
                      /\ emitted'[1].guildId = ticks[s].guildId
        /\ \A g \in Guilds :
               (EventsOf(emitted', "invoke", g) # {} /\ g \in guildsCache'
                    /\ config'[g].entries # << >>)
                   => \E s \in TickSlots :
                          /\ ticks[s] = Idle
                          /\ ticks'[s].pc = "fetch"
                          /\ ticks'[s].guildId = g
                          /\ \A r \in Suspended(g) : ticks'[r] = ticks[r] ]_vars

\* C16 witness: a reconciliation of a guild has just been invoked and awaits
\* its bulk fetch while an earlier one of the guild is suspended in a rename.
C16_Witness ==
    \E g \in Guilds :
        /\ Has("invoke", g)
        /\ Has("fetch", g)
        /\ \E s, r \in TickSlots :
               /\ ticks[s].pc = "rename" /\ ticks[s].guildId = g
               /\ ticks[r].pc = "fetch" /\ ticks[r].guildId = g

\* The step is the guild-join of g / the guild-leave of g.
Joins(g) == g \notin guildsCache /\ g \in guildsCache'

Leaves(g) == g \in guildsCache /\ g \notin guildsCache'

\* C17 as claimed: after a guild-join the guild has a settings record and an
\* active timer, whether the guild is new or rejoins with a retained record;
\* after a guild-leave it has no timer and the settings are unchanged.
C17_JoinAlwaysArms ==
    [][ \A g \in Guilds :
            /\ Joins(g) => (g \in DOMAIN config' /\ g \in DOMAIN timers')
            /\ Leaves(g) => (g \notin DOMAIN timers' /\ config' = config) ]_vars

\* C17 amended: after a guild-join the guild has a settings record, the
\* default one for a guild without a record and the retained one otherwise,
\* and a timer is active for it exactly when the record's running flag is
\* true (then one reconciliation has been invoked and one interval armed at
\* the record's period); a guild that rejoins with a stopped record stays
\* without a timer.  After a guild-leave the guild has no timer and no armed
\* interval, and the settings are unchanged.
C17_JoinArmsWhenRunning ==
    [][ \A g \in Guilds :
            /\ Joins(g) =>
                   /\ g \in DOMAIN config'
                   /\ config'[g] = SettingsIn(config, g)
                   /\ \A k \in DOMAIN config : config'[k] = config[k]
                   /\ g \in DOMAIN timers' <=> config'[g].running
                   /\ IF config'[g].running
                      THEN /\ EventsOf(emitted', "invoke", g) # {}
                           /\ IntervalsOf(g)' = {timers'[g]}
                           /\ intervals'[timers'[g]].periodMs
                                  = periodMs(config'[g].intervalMinutes)
                      ELSE /\ EventsOf(emitted', "invoke", g) = {}
                           /\ IntervalsOf(g)' = {}
            /\ Leaves(g) =>
                   (g \notin DOMAIN timers' /\ IntervalsOf(g)' = {}
                        /\ config' = config) ]_vars

\* C17 witness: a guild has just rejoined, while the ready handler awaits the
\* command registration, with a retained running record that holds a
\* mapping, and its timer has been armed.
C17_Witness ==
    \E g \in Guilds :
        /\ readyPc = "registering"
        /\ g \in guildsCache
        /\ Has("arm", g)
        /\ EventsOf(emitted, "reply", g) = {}
        /\ config[g].entries # << >>
        /\ g \in DOMAIN timers

\* C18: in every reachable state a guild with a handle in the timer map has
\* a settings record, and the interval behind the handle is armed at
\* max(1, intervalMinutes) minutes for the intervalMinutes the record holds
\* now.
C18_PeriodFollowsInterval ==
    \A g \in DOMAIN timers :
        /\ g \in DOMAIN config
        /\ timers[g] \in DOMAIN intervals
        /\ intervals[timers[g]].periodMs
               = Max(1, config[g].intervalMinutes) * 60 * 1000

\* C18 witness: a timer armed at 1440 minutes has just been replaced by one
\* armed at 1 minute, the interval now stored.
C18_Witness ==
    \E g \in DOMAIN timers :
        /\ config[g].intervalMinutes = 1
        /\ intervals[timers[g]].periodMs = 60 * 1000
        /\ \E i \in EventsOf(emitted, "clear", g) :
               emitted[i].periodMs = 1440 * 60 * 1000

\* C19: once the ready handler has finished, every guild in the cache has a
\* settings record, and if its running flag is true it has a handle in the
\* timer map whose interval is armed.
C19_RunningMemberHasTimer ==
    readyPc = "done" =>
        \A g \in guildsCache :
            /\ g \in DOMAIN config
            /\ config[g].running =>
                   (g \in DOMAIN timers /\ timers[g] \in DOMAIN intervals)

\* C19 witness: after ready, /crypto-start has just been answered "Already
\* running" for a member guild, which has its timer.
C19_Witness ==
    \E g \in guildsCache :
        /\ readyPc = "done"
        /\ Replied(emitted, g, "alreadyrunning")
        /\ config[g].running
        /\ g \in DOMAIN timers


\* The channels mapped in guild g's record
Mapped(cfg, g) == { EntriesIn(cfg, g)[k].channelId : k \in DOMAIN EntriesIn(cfg, g) }

\* The entry events of the last stretch that requested a rename of a channel
\* guild g's record does not map
RenamesOfUnmapped(g) ==
    { i \in EventsOf(emitted, "entry", g) :
        /\ emitted[i].outcome = "rename"
        /\ emitted[i].channelId \notin Mapped(config, g) }

\* C20 as stated: the reconciliation loop never requests the rename of a
\* channel that is not mapped in the guild's record when it is requested,
\* whatever tick was in flight when the mapping was removed.
C20_NoRenameOfRemovedChannel ==
    \A g \in Guilds : RenamesOfUnmapped(g) = {}

\* C20 amended: a loop that starts on its entries after the removal, the
\* loop of a tick resumed from its price fetch included, requests no rename
\* of an unmapped channel; the only rename of an unmapped channel is
\* requested by a loop resumed from the rename of an earlier entry whose
\* array was replaced by /crypto-remove while it was suspended, and the
\* channel is an entry of the array it iterates.
C20_OnlyLoopAlreadyIteratingRenamesRemoved ==
    \A g \in Guilds : \A i \in RenamesOfUnmapped(g) :
        /\ ~Has("fetchResult", g)
        /\ Has("renameResult", g)
        /\ emitted[i].index > 1
        /\ \E s \in TickSlots :
               /\ ticks[s].pc = "rename"
               /\ ticks[s].guildId = g
               /\ ticks[s].idx = emitted[i].index
               /\ ~ticks[s].live
               /\ ticks[s].idx \in DOMAIN ticks[s].snap
               /\ ticks[s].snap[ticks[s].idx].channelId = emitted[i].channelId

\* C20 witness: a bulk fetch requested for two mapped coins has returned
\* both prices after one of the two mappings was removed, and the loop has
\* requested the rename of the remaining channel only.
C20_Witness ==
    \E g \in Guilds : \E f \in EventsOf(emitted, "fetchResult", g) :
        /\ Cardinality(emitted[f].prices) = 2
        /\ Len(EntriesIn(config, g)) = 1
        /\ \E i \in EventsOf(emitted, "entry", g) :
               /\ emitted[i].outcome = "rename"
               /\ emitted[i].index = 1
               /\ emitted[i].channelId \in Mapped(config, g)
        /\ \A i \in EventsOf(emitted, "entry", g) : emitted[i].index = 1

====
